---------------------------- MODULE Spec2Model ----------------------------
(***************************************************************************)
(* Model of src/tacotron/feeder_adapt.py: class Feeder.                    *)
(*                                                                         *)
(* The Feeder reads examples from a shuffled metadata pool on background   *)
(* threads, buckets them by mel length, assembles per-device padded        *)
(* batches and enqueues them into a bounded tf.FIFOQueue that the training *)
(* loop dequeues from.                                                     *)
(*                                                                         *)
(* Arrays are sequences.  A 2-D array is a sequence of rows; a mel or      *)
(* linear frame (a row of num_mels / num_freq floats) is one value, and a  *)
(* padded frame is the value _target_pad.  Speaker embeddings              *)
(* (hparams.spk_dependent_embedding) are left out: the model follows the   *)
(* branch where the flag is off.                                           *)
(***************************************************************************)
EXTENDS Integers, Sequences, FiniteSets, TLC

(***************************************************************************)
(* Bounds of the model.                                                    *)
(***************************************************************************)
\* _batches_per_group (line 11) is 64 in the source; the model scales it
\* down.  It is both the queue capacity (line 70) and the number of batches
\* read per group (line 102).
_batches_per_group == 2
\* Number of background threads start_threads can be asked to launch.
MaxThreads == 2
\* Largest hparams.tacotron_batch_size and hparams.tacotron_num_gpus.
MaxBatchSize == 2
MaxGpus == 2
\* Largest hparams.outputs_per_step.
MaxR == 2
\* Longest token sequence and longest mel spectrogram of a drawn batch.
MaxTextLen == 2
MaxMelLen == 3

\* hparams.max_abs_value (an input; Tacotron-2's default is 4).
max_abs_value == 4

(***************************************************************************)
(* Generic sequence helpers.                                               *)
(***************************************************************************)
Range(s) == {s[i] : i \in DOMAIN s}

Perms(n) == {p \in [1..n -> 1..n] : Range(p) = 1..n}

\* s reordered by the permutation p: what np.random.shuffle can leave.
Permute(s, p) == [i \in 1..Len(s) |-> s[p[i]]]

\* Python's max() over a non-empty list of integers.
Max(s) == CHOOSE m \in Range(s) : \A x \in Range(s) : x <= m

Fill(n, v) == [i \in 1..n |-> v]

(***************************************************************************)
(* Feeder._round_up (lines 203-205).                                       *)
(***************************************************************************)
RoundUpNoRound(x, multiple) == x

RoundUpAlwaysAdd(x, multiple) == x + multiple - (x % multiple)

_round_up(x, multiple) ==
    LET remainder == x % multiple
    IN  IF remainder = 0 THEN x ELSE x + multiple - remainder

(***************************************************************************)
(* Padding (lines 194-201): np.pad on the right with a constant.           *)
(***************************************************************************)
_pad == 0
_token_pad == 1
_target_pad(hp) == IF hp.symmetric_mels THEN -max_abs_value ELSE 0

PadInputLeft(x, length) == Fill(length - Len(x), _pad) \o x

_pad_input(x, length) == x \o Fill(length - Len(x), _pad)

_pad_target(hp, t, length) == t \o Fill(length - Len(t), _target_pad(hp))

_pad_token_target(t, length) == t \o Fill(length - Len(t), _token_pad)

(***************************************************************************)
(* _prepare_inputs / _prepare_targets / _prepare_token_targets             *)
(* (lines 180-192): the stacked padded rows and the padded width.          *)
(***************************************************************************)
_prepare_inputs(inputs) ==
    LET max_len == Max([i \in DOMAIN inputs |-> Len(inputs[i])])
    IN  [data |-> [i \in DOMAIN inputs |-> _pad_input(inputs[i], max_len)],
         max_len |-> max_len]

_prepare_targets(hp, targets, alignment) ==
    LET max_len  == Max([i \in DOMAIN targets |-> Len(targets[i])])
        data_len == _round_up(max_len, alignment)
    IN  [data |-> [i \in DOMAIN targets |-> _pad_target(hp, targets[i], data_len)],
         max_len |-> data_len]

PrepareTokenTargetsNoPlusOne(targets, alignment) ==
    LET max_len  == Max([i \in DOMAIN targets |-> Len(targets[i])])
        data_len == _round_up(max_len, alignment)
    IN  [data |-> [i \in DOMAIN targets |-> _pad_token_target(targets[i], data_len)],
         max_len |-> data_len]

_prepare_token_targets(targets, alignment) ==
    LET max_len  == Max([i \in DOMAIN targets |-> Len(targets[i])]) + 1
        data_len == _round_up(max_len, alignment)
    IN  [data |-> [i \in DOMAIN targets |-> _pad_token_target(targets[i], data_len)],
         max_len |-> data_len]

(***************************************************************************)
(* np.concatenate((a, b), axis=1) of two arrays with the same number of    *)
(* rows: row i of the result is row i of a followed by row i of b.         *)
(***************************************************************************)
ConcatAxis0(a, b) == a \o b

ConcatAxis1Swapped(a, b) == [i \in DOMAIN a |-> b[i] \o a[i]]

ConcatAxis1(a, b) == [i \in DOMAIN a |-> a[i] \o b[i]]

(***************************************************************************)
(* An example as _get_next_example returns it (line 139), from a text of   *)
(* txt tokens and a mel file of mel frames.  Token ids and frames are      *)
(* non-filler values that tell the example and the position.               *)
(*   token_target: line 134, [0.] * (len(mel_target) - 1); a negative      *)
(*   repeat count gives the empty list.                                    *)
(*   linear_target: one frame per mel frame (line 136 or 138).             *)
(***************************************************************************)
MakeExampleFlagPerFrame(id, txt, mel) ==
    [id            |-> id,
     input_data    |-> [i \in 1..txt |-> 10 * id + i],
     mel_target    |-> [i \in 1..mel |-> 100 * id + i],
     token_target  |-> Fill(mel, 0),
     linear_target |-> [i \in 1..mel |-> 200 * id + i],
     speaker_id    |-> id,
     len           |-> mel]

MakeExample(id, txt, mel) ==
    [id            |-> id,
     input_data    |-> [i \in 1..txt |-> 10 * id + i],
     mel_target    |-> [i \in 1..mel |-> 100 * id + i],
     token_target  |-> Fill(IF mel - 1 > 0 THEN mel - 1 ELSE 0, 0),
     linear_target |-> [i \in 1..mel |-> 200 * id + i],
     speaker_id    |-> id,
     len           |-> mel]

(***************************************************************************)
(* Feeder._prepare_batch (lines 141-178).  p is the permutation the        *)
(* shuffle of line 144 applies.  The result is the tuple of line 178 with  *)
(* raised = "none", or raised = "AssertionError" when the assert of line   *)
(* 142 fails.                                                              *)
(***************************************************************************)
Column(s, f) == [i \in DOMAIN s |-> s[i][f]]

RECURSIVE DeviceLoop(_, _, _, _, _)
DeviceLoop(hp, batches, size_per_device, i, acc) ==
    IF i >= hp.tacotron_num_gpus THEN acc
    ELSE
      LET batch == SubSeq(batches, size_per_device * i + 1, size_per_device * (i + 1))
          inp == _prepare_inputs(Column(batch, "input_data"))
          mel == _prepare_targets(hp, Column(batch, "mel_target"), hp.outputs_per_step)
          tok == _prepare_token_targets(Column(batch, "token_target"), hp.outputs_per_step)
          lin == _prepare_targets(hp, Column(batch, "linear_target"), hp.outputs_per_step)
          first == acc.split_infos = <<>>
      IN  DeviceLoop(hp, batches, size_per_device, i + 1,
            [inputs         |-> IF first THEN inp.data ELSE ConcatAxis1(acc.inputs, inp.data),
             mel_targets    |-> IF first THEN mel.data ELSE ConcatAxis1(acc.mel_targets, mel.data),
             token_targets  |-> IF first THEN tok.data ELSE ConcatAxis1(acc.token_targets, tok.data),
             linear_targets |-> IF first THEN lin.data ELSE ConcatAxis1(acc.linear_targets, lin.data),
             split_infos    |-> Append(acc.split_infos,
                                  <<inp.max_len, mel.max_len, tok.max_len, lin.max_len>>)])

PrepareBatchLengthsBeforeShuffle(hp, unshuffled, p) ==
    IF Len(unshuffled) % hp.tacotron_num_gpus # 0 THEN [raised |-> "AssertionError"]
    ELSE
      LET size_per_device == Len(unshuffled) \div hp.tacotron_num_gpus
          batches == Permute(unshuffled, p)
          dev == DeviceLoop(hp, batches, size_per_device, 0,
                   [inputs |-> <<>>, mel_targets |-> <<>>, token_targets |-> <<>>,
                    linear_targets |-> <<>>, split_infos |-> <<>>])
      IN  [raised          |-> "none",
           inputs          |-> dev.inputs,
           input_lengths   |-> [i \in DOMAIN unshuffled |-> Len(unshuffled[i].input_data)],
           mel_targets     |-> dev.mel_targets,
           token_targets   |-> dev.token_targets,
           linear_targets  |-> dev.linear_targets,
           targets_lengths |-> Column(unshuffled, "len"),
           split_infos     |-> dev.split_infos,
           speaker_id      |-> Column(batches, "speaker_id")]

_prepare_batch(hp, batch, p) ==
    IF Len(batch) % hp.tacotron_num_gpus # 0 THEN [raised |-> "AssertionError"]
    ELSE
      LET size_per_device == Len(batch) \div hp.tacotron_num_gpus
          batches == Permute(batch, p)
          dev == DeviceLoop(hp, batches, size_per_device, 0,
                   [inputs |-> <<>>, mel_targets |-> <<>>, token_targets |-> <<>>,
                    linear_targets |-> <<>>, split_infos |-> <<>>])
      IN  [raised          |-> "none",
           inputs          |-> dev.inputs,
           input_lengths   |-> [i \in DOMAIN batches |-> Len(batches[i].input_data)],
           mel_targets     |-> dev.mel_targets,
           token_targets   |-> dev.token_targets,
           linear_targets  |-> dev.linear_targets,
           targets_lengths |-> Column(batches, "len"),
           split_infos     |-> dev.split_infos,
           speaker_id      |-> Column(batches, "speaker_id")]

(***************************************************************************)
(* The metadata file (lines 29-38): NumRecords lines; record k has a text  *)
(* of TextLenOf(k) tokens and a mel file of MelLenOf(k) frames.            *)
(***************************************************************************)
NumRecords == 3
TextLenOf(k) == 1 + (k % MaxTextLen)
MelLenOf(k) == 1 + ((2 * k) % MaxMelLen)

Threads == 1..MaxThreads

\* Local variables are emptied once the code no longer reads them.
\* Saturation point of the bookkeeping counters below.
CountCap == _batches_per_group + MaxThreads + 1

VARIABLES
    hparams,        \* self._hparams: the fields the feeder reads
    _train_meta,    \* self._train_meta: the pool, a sequence of record numbers
    _train_offset,  \* self._train_offset
    queue,          \* the tf.FIFOQueue 'input_queue' of line 70
    stop_requested, \* the coordinator's flag, read by self._coord.should_stop()
    pc,             \* per thread: where the background thread is
    examples,       \* per thread: the local list 'examples' of line 102
    batches,        \* per thread: the batches of line 106 the for loop has not reached
    batch,          \* per thread: 'batch' of line 110, which line 144 shuffles in place
    feed_dict,      \* per thread: the assembled batch of line 111
    meta,           \* per thread: 'meta' of line 121
    offset_read,    \* per thread: the value read by the += of line 122
    error,          \* per thread: the exception that ended the thread
    consumer,       \* the training loop: "idle" or "waiting" in a dequeue
    starts_left,    \* calls of start_threads the caller will still make
    round_call,     \* a direct call of _round_up: its arguments and its result
    tickets,        \* bookkeeping: number of enqueues so far (saturating)
    dequeued,       \* bookkeeping: tickets of the first dequeued batches
    assembled,      \* bookkeeping: number of batches assembled so far (saturating)
    in_group,       \* bookkeeping, per thread: batches of its current group enqueued
    stop_phase,     \* bookkeeping, per thread: where the stop signal found it
    epoch_drawn     \* bookkeeping: the records read since the last reshuffle

vars == <<hparams, _train_meta, _train_offset, queue, stop_requested, pc, examples,
          batches, batch, feed_dict, meta, offset_read, error, consumer, starts_left,
          round_call, tickets, dequeued, assembled, in_group, stop_phase,
          epoch_drawn>>

shared == <<_train_meta, _train_offset>>
locals == <<examples, batches, batch, feed_dict, meta, offset_read>>
env    == <<consumer, starts_left, round_call>>
counts == <<tickets, dequeued, assembled, in_group, stop_phase>>
book   == <<tickets, dequeued, assembled, in_group, stop_phase, epoch_drawn>>

Bump(n) == IF n < CountCap THEN n + 1 ELSE n

NoCall == [x |-> 0, multiple |-> 1, returned |-> FALSE, result |-> 0]

(***************************************************************************)
(* Feeder.__init__ (lines 17-87).                                          *)
(***************************************************************************)
AllConfigs ==
    [tacotron_batch_size : 1..MaxBatchSize,
     tacotron_num_gpus   : 1..MaxGpus,
     outputs_per_step    : 1..MaxR,
     symmetric_mels      : BOOLEAN]

\* The threaded model runs one value of outputs_per_step and symmetric_mels;
\* AssembleSpec below covers all of them.
FeederConfigs == {hp \in AllConfigs : hp.outputs_per_step = MaxR /\ hp.symmetric_mels}

Constructed(hp, starts, n) ==
    /\ hparams = hp
    /\ starts_left = starts
    /\ _train_meta = [k \in 1..n |-> k]
    /\ _train_offset = 0
    /\ queue = <<>>
    /\ stop_requested = FALSE
    /\ pc = [t \in Threads |-> "idle"]
    /\ examples = [t \in Threads |-> <<>>]
    /\ batches = [t \in Threads |-> <<>>]
    /\ batch = [t \in Threads |-> <<>>]
    /\ feed_dict = [t \in Threads |-> <<>>]
    /\ meta = [t \in Threads |-> 0]
    /\ offset_read = [t \in Threads |-> 0]
    /\ error = [t \in Threads |-> "none"]
    /\ consumer = "idle"
    /\ round_call = NoCall
    /\ tickets = 0
    /\ dequeued = <<>>
    /\ assembled = 0
    /\ in_group = [t \in Threads |-> 0]
    /\ stop_phase = [t \in Threads |-> "none"]
    /\ epoch_drawn = <<>>

\* The caller starts the feeder once.
Init == \E hp \in FeederConfigs : Constructed(hp, 1, NumRecords)

(***************************************************************************)
(* Feeder.start_threads (lines 89-93): creates and starts a new thread on  *)
(* every call.                                                             *)
(***************************************************************************)
start_threads ==
    \E t \in Threads :
        /\ starts_left > 0
        /\ pc[t] = "idle"
        /\ \A u \in Threads : u < t => pc[u] # "idle"
        /\ pc' = [pc EXCEPT ![t] = "while"]
        /\ starts_left' = starts_left - 1
        /\ UNCHANGED <<hparams, shared, queue, stop_requested, locals, error,
                       consumer, round_call, book>>

(***************************************************************************)
(* Feeder._enqueue_next_train_group (lines 95-112), one step at a time.    *)
(***************************************************************************)
Raise(t, exc) ==
    /\ pc' = [pc EXCEPT ![t] = "crashed"]
    /\ error' = [error EXCEPT ![t] = exc]

WhileNoPoll(t) ==
    /\ pc[t] = "while"
    /\ pc' = [pc EXCEPT ![t] = "get"]
    /\ examples' = [examples EXCEPT ![t] = <<>>]
    /\ in_group' = [in_group EXCEPT ![t] = 0]
    /\ UNCHANGED <<hparams, shared, queue, stop_requested, batches, batch, feed_dict,
                   meta, offset_read, error, env, tickets, dequeued, assembled,
                   stop_phase, epoch_drawn>>

\* line 96: while not self._coord.should_stop()
While(t) ==
    /\ pc[t] = "while"
    /\ pc' = [pc EXCEPT ![t] = IF stop_requested THEN "done" ELSE "get"]
    /\ examples' = [examples EXCEPT ![t] = <<>>]
    /\ in_group' = IF stop_requested THEN in_group ELSE [in_group EXCEPT ![t] = 0]
    /\ UNCHANGED <<hparams, shared, queue, stop_requested, batches, batch, feed_dict,
                   meta, offset_read, error, env, tickets, dequeued, assembled,
                   stop_phase, epoch_drawn>>

GetCheckWrapEarly(t) ==
    /\ pc[t] = "get"
    /\ pc' = [pc EXCEPT ![t] =
          IF _train_offset >= Len(_train_meta) - 1 THEN "reset" ELSE "read"]
    /\ UNCHANGED <<hparams, shared, queue, stop_requested, locals, error, env, book>>

\* line 117: if self._train_offset >= len(self._train_meta)
GetCheck(t) ==
    /\ pc[t] = "get"
    /\ pc' = [pc EXCEPT ![t] =
          IF _train_offset >= Len(_train_meta) THEN "reset" ELSE "read"]
    /\ UNCHANGED <<hparams, shared, queue, stop_requested, locals, error, env, book>>

\* line 118: self._train_offset = 0
GetReset(t) ==
    /\ pc[t] = "reset"
    /\ _train_offset' = 0
    /\ pc' = [pc EXCEPT ![t] = "shuffle"]
    /\ UNCHANGED <<hparams, _train_meta, queue, stop_requested, locals, error, env, book>>

\* line 119: np.random.shuffle(self._train_meta)
GetShuffle(t) ==
    /\ pc[t] = "shuffle"
    /\ \E p \in Perms(Len(_train_meta)) : _train_meta' = Permute(_train_meta, p)
    /\ pc' = [pc EXCEPT ![t] = "read"]
    /\ epoch_drawn' = <<>>
    /\ UNCHANGED <<hparams, _train_offset, queue, stop_requested, locals, error, env,
                   counts>>

\* line 121: meta = self._train_meta[self._train_offset]
GetRead(t) ==
    /\ pc[t] = "read"
    /\ IF _train_offset < Len(_train_meta)
         THEN /\ meta' = [meta EXCEPT ![t] = _train_meta[_train_offset + 1]]
              /\ epoch_drawn' = Append(epoch_drawn, _train_meta[_train_offset + 1])
              /\ pc' = [pc EXCEPT ![t] = "incr"]
              /\ UNCHANGED error
         ELSE /\ Raise(t, "IndexError")
              /\ UNCHANGED <<meta, epoch_drawn>>
    /\ UNCHANGED <<hparams, shared, queue, stop_requested, examples, batches, batch,
                   feed_dict, offset_read, env, counts>>

\* line 122, first half: the read of self._train_offset
GetIncrRead(t) ==
    /\ pc[t] = "incr"
    /\ offset_read' = [offset_read EXCEPT ![t] = _train_offset]
    /\ pc' = [pc EXCEPT ![t] = "load"]
    /\ UNCHANGED <<hparams, shared, queue, stop_requested, examples, batches, batch,
                   feed_dict, meta, error, env, book>>

\* line 122, second half, and lines 124-139: the write of the offset, then the
\* loads from disk, which either raise or give the example; line 102 collects
\* n * _batches_per_group of them.
GroupSize == hparams.tacotron_batch_size * _batches_per_group

GetLoad(t) ==
    /\ pc[t] = "load"
    /\ _train_offset' = offset_read[t] + 1
    /\ \/ /\ Raise(t, "IOError")
          /\ examples' = [examples EXCEPT ![t] = <<>>]
       \/ /\ examples' = [examples EXCEPT ![t] =
                Append(@, MakeExample(meta[t], TextLenOf(meta[t]), MelLenOf(meta[t])))]
          /\ pc' = [pc EXCEPT ![t] =
                IF Len(examples[t]) + 1 >= GroupSize THEN "bucket" ELSE "get"]
          /\ UNCHANGED error
    /\ meta' = [meta EXCEPT ![t] = 0]
    /\ offset_read' = [offset_read EXCEPT ![t] = 0]
    /\ UNCHANGED <<hparams, _train_meta, queue, stop_requested, batches, batch,
                   feed_dict, env, book>>

\* line 105: examples.sort(key=lambda x: x[-1]), a stable sort
RECURSIVE Insert(_, _)
Insert(sorted, x) ==
    IF sorted = <<>> THEN <<x>>
    ELSE IF sorted[Len(sorted)].len <= x.len THEN Append(sorted, x)
    ELSE Append(Insert(SubSeq(sorted, 1, Len(sorted) - 1), x), sorted[Len(sorted)])

SortSkipped(s) == s

RECURSIVE SortByLen(_)
SortByLen(s) ==
    IF s = <<>> THEN <<>>
    ELSE Insert(SortByLen(SubSeq(s, 1, Len(s) - 1)), s[Len(s)])

\* line 106: [examples[i: i+n] for i in range(0, len(examples), n)]
Slices(s, n) ==
    [j \in 1..((Len(s) + n - 1) \div n) |->
        SubSeq(s, (j - 1) * n + 1, IF j * n <= Len(s) THEN j * n ELSE Len(s))]

BucketShuffleExamples(t) ==
    /\ pc[t] = "bucket"
    /\ \E p \in Perms(Len(examples[t])) :
           batches' = [batches EXCEPT ![t] =
              Slices(Permute(SortByLen(examples[t]), p), hparams.tacotron_batch_size)]
    /\ examples' = [examples EXCEPT ![t] = <<>>]
    /\ pc' = [pc EXCEPT ![t] = "prepare"]
    /\ UNCHANGED <<hparams, shared, queue, stop_requested, batch, feed_dict, meta,
                   offset_read, error, env, book>>

\* lines 105-107: sort, slice, shuffle the batches
Bucket(t) ==
    /\ pc[t] = "bucket"
    /\ LET sliced == Slices(SortByLen(examples[t]), hparams.tacotron_batch_size)
       IN  \E p \in Perms(Len(sliced)) :
               batches' = [batches EXCEPT ![t] = Permute(sliced, p)]
    /\ examples' = [examples EXCEPT ![t] = <<>>]
    /\ pc' = [pc EXCEPT ![t] = "prepare"]
    /\ UNCHANGED <<hparams, shared, queue, stop_requested, batch, feed_dict, meta,
                   offset_read, error, env, book>>

\* lines 110-111: the next batch of the for loop is assembled
Prepare(t) ==
    /\ pc[t] = "prepare"
    /\ \E p \in Perms(Len(Head(batches[t]))) :
         LET out == _prepare_batch(hparams, Head(batches[t]), p)
         IN  IF out.raised # "none"
               THEN /\ Raise(t, "AssertionError")
                    /\ batches' = [batches EXCEPT ![t] = <<>>]
                    /\ UNCHANGED <<batch, feed_dict, assembled>>
               ELSE /\ feed_dict' = [feed_dict EXCEPT ![t] = out]
                    /\ batch' = [batch EXCEPT ![t] = Permute(Head(batches[t]), p)]
                    /\ assembled' = Bump(assembled)
                    /\ batches' = [batches EXCEPT ![t] = Tail(@)]
                    /\ pc' = [pc EXCEPT ![t] = "enqueue"]
                    /\ UNCHANGED error
    /\ UNCHANGED <<hparams, shared, queue, stop_requested, examples, meta,
                   offset_read, env, tickets, dequeued, in_group, stop_phase,
                   epoch_drawn>>

\* line 112: self._session.run(self._enqueue_op), which blocks while the queue
\* holds its capacity (line 70) of elements
QueueNeverFull == FALSE

QueueFull == Len(queue) >= _batches_per_group

EnqueueThenPoll(t) ==
    /\ pc[t] = "enqueue"
    /\ ~QueueFull
    /\ queue' = Append(queue, [ticket |-> Bump(tickets), feed |-> feed_dict[t]])
    /\ tickets' = Bump(tickets)
    /\ in_group' = [in_group EXCEPT ![t] = @ + 1]
    /\ feed_dict' = [feed_dict EXCEPT ![t] = <<>>]
    /\ batch' = [batch EXCEPT ![t] = <<>>]
    /\ batches' = [batches EXCEPT ![t] = IF stop_requested THEN <<>> ELSE @]
    /\ pc' = [pc EXCEPT ![t] =
          IF stop_requested THEN "done"
          ELSE IF batches[t] # <<>> THEN "prepare" ELSE "while"]
    /\ UNCHANGED <<hparams, shared, stop_requested, examples, meta,
                   offset_read, error, env, dequeued, assembled, stop_phase,
                   epoch_drawn>>

Enqueue(t) ==
    /\ pc[t] = "enqueue"
    /\ ~QueueFull
    /\ queue' = Append(queue, [ticket |-> Bump(tickets), feed |-> feed_dict[t]])
    /\ tickets' = Bump(tickets)
    /\ in_group' = [in_group EXCEPT ![t] = @ + 1]
    /\ feed_dict' = [feed_dict EXCEPT ![t] = <<>>]
    /\ batch' = [batch EXCEPT ![t] = <<>>]
    /\ pc' = [pc EXCEPT ![t] = IF batches[t] # <<>> THEN "prepare" ELSE "while"]
    /\ UNCHANGED <<hparams, shared, stop_requested, examples, batches, meta,
                   offset_read, error, env, dequeued, assembled, stop_phase,
                   epoch_drawn>>

ThreadStep(t) ==
    \/ While(t)
    \/ GetCheck(t)
    \/ GetReset(t)
    \/ GetShuffle(t)
    \/ GetRead(t)
    \/ GetIncrRead(t)
    \/ GetLoad(t)
    \/ Bucket(t)
    \/ Prepare(t)
    \/ Enqueue(t)

(***************************************************************************)
(* The environment: the coordinator and the training loop.                 *)
(***************************************************************************)
\* a thread inside the body of the while loop (lines 97-112)
InGroup(t) == pc[t] \notin {"idle", "while", "done", "crashed"}

\* coord.request_stop(), by whoever holds the coordinator
request_stop ==
    /\ ~stop_requested
    /\ stop_requested' = TRUE
    /\ stop_phase' = [t \in Threads |-> IF InGroup(t) THEN "mid" ELSE "boundary"]
    /\ UNCHANGED <<hparams, shared, queue, pc, locals, error, env, tickets, dequeued,
                   assembled, in_group, epoch_drawn>>

\* the training loop runs the dequeue op of lines 72-77 ...
DequeueCall ==
    /\ consumer = "idle"
    /\ consumer' = "waiting"
    /\ UNCHANGED <<hparams, shared, queue, stop_requested, pc, locals, error,
                   starts_left, round_call, book>>

\* tf.FIFOQueue.dequeue (lines 70-77): the element handed out and what stays
DequeueNewest(q) == [element |-> q[Len(q)], rest |-> SubSeq(q, 1, Len(q) - 1)]

QueueDequeue(q) == [element |-> Head(q), rest |-> Tail(q)]

\* ... which returns the oldest element once the queue holds one
DequeueReturn ==
    /\ consumer = "waiting"
    /\ queue # <<>>
    /\ queue' = QueueDequeue(queue).rest
    /\ dequeued' = IF Len(dequeued) < CountCap
                     THEN Append(dequeued, QueueDequeue(queue).element.ticket)
                     ELSE dequeued
    /\ consumer' = "idle"
    /\ UNCHANGED <<hparams, shared, stop_requested, pc, locals, error, starts_left,
                   round_call, tickets, assembled, in_group, stop_phase, epoch_drawn>>

Next ==
    \/ start_threads
    \/ \E t \in Threads : ThreadStep(t)
    \/ request_stop
    \/ DequeueCall
    \/ DequeueReturn

Spec == Init /\ [][Next]_vars

(***************************************************************************)
(* A feeder nobody dequeues from.  Its caller starts it once, in every      *)
(* configuration, or calls start_threads up to MaxThreads times, with      *)
(* batches of one example on a metadata file one line shorter.             *)
(***************************************************************************)
NoConsumerInit ==
    \E hp \in FeederConfigs, starts \in 1..MaxThreads :
        /\ starts > 1 => hp.tacotron_batch_size = 1
        /\ Constructed(hp, starts, IF starts > 1 THEN NumRecords - 1 ELSE NumRecords)

NoConsumerNext ==
    \/ start_threads
    \/ \E t \in Threads : ThreadStep(t)
    \/ request_stop

NoConsumerSpec == NoConsumerInit /\ [][NoConsumerNext]_vars



(***************************************************************************)
(* The feeder under fair scheduling: a thread that can run does run, and a *)
(* dequeue that can return does return.  Batches of one example.           *)
(***************************************************************************)
LiveInit ==
    \E hp \in FeederConfigs :
        /\ hp.tacotron_batch_size = 1
        /\ Constructed(hp, 1, NumRecords)

Fairness ==
    /\ \A t \in Threads : WF_vars(ThreadStep(t))
    /\ WF_vars(DequeueReturn)

LiveSpec == LiveInit /\ [][Next]_vars /\ Fairness

(***************************************************************************)
(* Batch assembly alone: _prepare_batch applied to any batch of up to      *)
(* MaxAssemble examples, sorted by mel length as the slices of line 106    *)
(* are, under any configuration.  Thread 1 stands at line 111 with the     *)
(* batch as the only one of its group.                                     *)
(***************************************************************************)
MaxAssemble == 4

SortedBatches ==
    UNION {
      {b \in [1..n -> [txt : 1..MaxTextLen, mel : 0..MaxMelLen]] :
          \A i \in 1..(n - 1) : b[i].mel <= b[i + 1].mel}
      : n \in 1..MaxAssemble}

AssembleInit ==
    \E hp \in AllConfigs, b \in SortedBatches :
        /\ hparams = hp
        /\ starts_left = 0
        /\ _train_meta = [k \in 1..NumRecords |-> k]
        /\ _train_offset = 0
        /\ queue = <<>>
        /\ stop_requested = FALSE
        /\ pc = [t \in Threads |-> IF t = 1 THEN "prepare" ELSE "idle"]
        /\ examples = [t \in Threads |-> <<>>]
        /\ batches = [t \in Threads |->
              IF t = 1 THEN <<[i \in 1..Len(b) |-> MakeExample(i, b[i].txt, b[i].mel)]>>
              ELSE <<>>]
        /\ batch = [t \in Threads |-> <<>>]
        /\ feed_dict = [t \in Threads |-> <<>>]
        /\ meta = [t \in Threads |-> 0]
        /\ offset_read = [t \in Threads |-> 0]
        /\ error = [t \in Threads |-> "none"]
        /\ consumer = "idle"
        /\ round_call = NoCall
        /\ tickets = 0
        /\ dequeued = <<>>
        /\ assembled = 0
        /\ in_group = [t \in Threads |-> 0]
        /\ stop_phase = [t \in Threads |-> "none"]
        /\ epoch_drawn = <<>>

AssembleNext == \E t \in Threads : Prepare(t)

AssembleSpec == AssembleInit /\ [][AssembleNext]_vars

(***************************************************************************)
(* Feeder._round_up alone: one call with any x in 0..MaxX and any multiple *)
(* in 1..MaxMultiple.                                                      *)
(***************************************************************************)
MaxX == 12
MaxMultiple == 5

RoundUpInit ==
    \E x \in 0..MaxX, multiple \in 1..MaxMultiple :
        /\ hparams = CHOOSE hp \in FeederConfigs : TRUE
        /\ starts_left = 0
        /\ _train_meta = [k \in 1..NumRecords |-> k]
        /\ _train_offset = 0
        /\ queue = <<>>
        /\ stop_requested = FALSE
        /\ pc = [t \in Threads |-> "idle"]
        /\ examples = [t \in Threads |-> <<>>]
        /\ batches = [t \in Threads |-> <<>>]
        /\ batch = [t \in Threads |-> <<>>]
        /\ feed_dict = [t \in Threads |-> <<>>]
        /\ meta = [t \in Threads |-> 0]
        /\ offset_read = [t \in Threads |-> 0]
        /\ error = [t \in Threads |-> "none"]
        /\ consumer = "idle"
        /\ round_call = [NoCall EXCEPT !.x = x, !.multiple = multiple]
        /\ tickets = 0
        /\ dequeued = <<>>
        /\ assembled = 0
        /\ in_group = [t \in Threads |-> 0]
        /\ stop_phase = [t \in Threads |-> "none"]
        /\ epoch_drawn = <<>>

RoundUpCall ==
    /\ ~round_call.returned
    /\ round_call' = [round_call EXCEPT
          !.returned = TRUE,
          !.result = _round_up(round_call.x, round_call.multiple)]
    /\ UNCHANGED <<hparams, shared, queue, stop_requested, pc, locals, error, consumer,
                   starts_left, book>>

RoundUpSpec == RoundUpInit /\ [][RoundUpCall]_vars

(***************************************************************************)
(* Properties.                                                             *)
(***************************************************************************)
Started == {t \in Threads : pc[t] # "idle"}
Running == {t \in Threads : pc[t] \notin {"idle", "done", "crashed"}}
Blocked(t) == pc[t] = "enqueue" /\ QueueFull

\* C1 (NoConsumerSpec): backpressure.  With nobody dequeuing, the queue never
\* holds more than its capacity C = _batches_per_group, no more than C batches
\* are ever enqueued, a producer holding an assembled batch in front of the
\* full queue cannot move, and no more than C plus one batch per started
\* producer is ever assembled: with the one producer of the claim, never a
\* (C+2)-th batch.
C1_Backpressure ==
    /\ Len(queue) <= _batches_per_group
    /\ tickets <= _batches_per_group
    /\ assembled <= _batches_per_group + Cardinality(Started)
    /\ \A t \in Threads : Blocked(t) => ~ENABLED ThreadStep(t)

\* C1 witness: the single producer holds batch C+1 in front of the full queue.
C1_Witness ==
    /\ Cardinality(Started) = 1
    /\ \E t \in Threads : Blocked(t)
    /\ assembled = _batches_per_group + 1
    /\ tickets = _batches_per_group

\* C2 (LiveSpec), the claim as stated: a producer blocked on the enqueue into
\* the full queue when the stop signal is set eventually terminates, unless the
\* consumer dequeues again.
C2_ShutdownWhileBlocked ==
    \A t \in Threads :
        (stop_requested /\ Blocked(t)) ~> (pc[t] = "done" \/ ~QueueFull)

\* C3 (Spec), the claim as stated: a producer that died of a fatal error has
\* signalled the consumer side.  The feeder never closes the queue and has no
\* error token, so the only signal there is is the coordinator's stop flag.
C3_FatalErrorSignalled ==
    \A t \in Threads : pc[t] = "crashed" => stop_requested

\* C4 (NoConsumerSpec), the claim as stated: at most one production loop runs.
C4_ExactlyOneProducer == Cardinality(Running) <= 1

\* C5 (Spec): FIFO delivery.  Batches are numbered in the order of their
\* enqueue; the batches dequeued so far are batches 1, 2, 3, ... in this order,
\* and together with the batches still in the queue they are all the batches
\* enqueued, each once (checked on the first CountCap batches).
TicketsInQueue == [i \in DOMAIN queue |-> queue[i].ticket]

C5_FifoDelivery ==
    /\ \A i \in DOMAIN dequeued : dequeued[i] = i
    /\ Len(dequeued) <= tickets
    /\ tickets < CountCap => dequeued \o TicketsInQueue = [i \in 1..tickets |-> i]

\* C5 witness: a queue's worth of batches dequeued while later batches wait.
C5_Witness ==
    /\ Len(dequeued) = _batches_per_group
    /\ queue # <<>>
    /\ tickets < CountCap

\* C6 (LiveSpec), the claim as stated: once a producer is started, a waiting
\* dequeue eventually returns unless the stop signal is set or a load fails.
C6_NoStarvation ==
    (consumer = "waiting" /\ Started # {})
        ~> (consumer = "idle" \/ stop_requested \/ \E t \in Threads : error[t] = "IOError")

\* C6 restricted to a batch size the device count divides (not the claim: what
\* TLC finds to hold once the assert of line 142 cannot fail).
NoStarvationWhenDivisible ==
    (/\ consumer = "waiting"
     /\ Started # {}
     /\ hparams.tacotron_batch_size % hparams.tacotron_num_gpus = 0)
        ~> (consumer = "idle" \/ stop_requested \/ \E t \in Threads : error[t] = "IOError")

\* C7 (Spec), the claim as stated: with a batch size the device count does not
\* divide, no example is ever loaded and no thread finds the error in its
\* loop.
C7_ConfigRejectedAtStartup ==
    hparams.tacotron_batch_size % hparams.tacotron_num_gpus # 0 =>
        /\ _train_offset = 0
        /\ \A t \in Threads : examples[t] = <<>>
        /\ \A t \in Threads : error[t] # "AssertionError"

(***************************************************************************)
(* Properties of an assembled batch: the threads that stand at line 112    *)
(* with their feed_dict.                                                   *)
(***************************************************************************)
Assembled == {t \in Threads : pc[t] = "enqueue"}
Tensors == {"inputs", "mel_targets", "token_targets", "linear_targets"}
\* position of each tensor's width in a row of split_infos (line 172)
WidthIndex(f) ==
    CASE f = "inputs" -> 1 [] f = "mel_targets" -> 2
      [] f = "token_targets" -> 3 [] f = "linear_targets" -> 4

RECURSIVE Sum(_)
Sum(s) == IF s = <<>> THEN 0 ELSE Head(s) + Sum(Tail(s))

NumExamples(fd) == Len(fd.input_lengths)
ShardSize(fd) == NumExamples(fd) \div hparams.tacotron_num_gpus
\* the entries of a per-example vector that belong to device d (0-based)
Shard(fd, v, d) == SubSeq(v, ShardSize(fd) * d + 1, ShardSize(fd) * (d + 1))
Devices == 0..(hparams.tacotron_num_gpus - 1)

\* the least multiple of m that is at least x
LeastMultiple(x, m) == CHOOSE k \in x..(x + m) : k % m = 0 /\ \A j \in x..(k - 1) : j % m # 0

\* C8, the claim as stated: each of the four tensors has one row per example.
C8_BatchAxisConcatenation ==
    \A t \in Assembled : \A f \in Tensors :
        Len(feed_dict[t][f]) = NumExamples(feed_dict[t])

\* C8 as amended (AssembleSpec): the shards are joined along axis 1.  Each of
\* the four tensors has B / num_devices rows, and every row is as wide as the
\* per-device padded widths of that tensor add up to.
C8_WidthAxisConcatenation ==
    \A t \in Assembled : \A f \in Tensors :
        LET fd == feed_dict[t]
        IN  /\ Len(fd[f]) = ShardSize(fd)
            /\ \A i \in DOMAIN fd[f] :
                 Len(fd[f][i]) = Sum([d \in DOMAIN fd.split_infos |->
                                        fd.split_infos[d][WidthIndex(f)]])

\* C8 witness: four examples over two devices, so two rows, not four.
C8_Witness ==
    \E t \in Assembled :
        /\ hparams.tacotron_num_gpus = 2
        /\ NumExamples(feed_dict[t]) = 4
        /\ Len(feed_dict[t].inputs) = 2

\* C9, the claim as stated: all four recorded widths of every shard are
\* multiples of outputs_per_step.
C9_AllWidthsMultiples ==
    \A t \in Assembled : \A d \in DOMAIN feed_dict[t].split_infos : \A k \in 1..4 :
        feed_dict[t].split_infos[d][k] % hparams.outputs_per_step = 0

\* C9 as amended (AssembleSpec): the mel, stop-flag and linear widths of every
\* shard are multiples of outputs_per_step; the input width is the longest
\* token sequence of the shard, not rounded.
C9_TargetWidthsMultiples ==
    \A t \in Assembled : \A d \in Devices :
        LET fd == feed_dict[t]
            row == fd.split_infos[d + 1]
        IN  /\ \A k \in 2..4 : row[k] % hparams.outputs_per_step = 0
            /\ row[1] = Max(Shard(fd, fd.input_lengths, d))

\* C9 witness: a shard whose input width is not a multiple of outputs_per_step
\* and whose mel width had to be rounded up.
C9_Witness ==
    \E t \in Assembled : \E d \in Devices :
        LET fd == feed_dict[t]
        IN  /\ fd.split_infos[d + 1][1] % hparams.outputs_per_step # 0
            /\ fd.split_infos[d + 1][2] > Max(Shard(fd, fd.targets_lengths, d))

\* C10, the claim as stated: the stop-flag width of a shard whose longest mel
\* has M >= 1 frames is round_up(M + 1, outputs_per_step).
C10_StopWidthPlusOne ==
    \A t \in Assembled : \A d \in Devices :
        LET fd == feed_dict[t]
            M  == Max(Shard(fd, fd.targets_lengths, d))
        IN  M >= 1 =>
              fd.split_infos[d + 1][3] = LeastMultiple(M + 1, hparams.outputs_per_step)

\* C10 as amended (AssembleSpec): the stop-flag width of a shard whose longest
\* mel has M >= 1 frames is round_up(M, outputs_per_step): the longest stop
\* sequence has M - 1 flags, and the + 1 of line 190 makes it M.
C10_StopWidth ==
    \A t \in Assembled : \A d \in Devices :
        LET fd == feed_dict[t]
            M  == Max(Shard(fd, fd.targets_lengths, d))
        IN  M >= 1 =>
              fd.split_infos[d + 1][3] = LeastMultiple(M, hparams.outputs_per_step)

\* C10 witness: a shard of two examples whose longest mel length is a multiple
\* of outputs_per_step > 1, where the two round-ups differ.
C10_Witness ==
    \E t \in Assembled : \E d \in Devices :
        LET fd == feed_dict[t]
            M  == Max(Shard(fd, fd.targets_lengths, d))
        IN  /\ ShardSize(fd) = 2
            /\ hparams.outputs_per_step > 1
            /\ M >= 1
            /\ M % hparams.outputs_per_step = 0
            /\ fd.split_infos[d + 1][3] = M

(***************************************************************************)
(* Reading an assembled batch back, shard by shard.  Device d's block of   *)
(* tensor f is B / num_devices rows by split_infos[d][f] columns, after    *)
(* the columns of the devices before it.                                   *)
(***************************************************************************)
\* the field of an example (line 139) each tensor is made of (lines 162-170)
SourceField(f) ==
    CASE f = "inputs" -> "input_data" [] f = "mel_targets" -> "mel_target"
      [] f = "token_targets" -> "token_target" [] f = "linear_targets" -> "linear_target"

Width(fd, f, d) == fd.split_infos[d + 1][WidthIndex(f)]
Offset(fd, f, d) == Sum([k \in 1..d |-> fd.split_infos[k][WidthIndex(f)]])
ShardBlock(fd, f, d) ==
    [j \in DOMAIN fd[f] |->
        SubSeq(fd[f][j], Offset(fd, f, d) + 1, Offset(fd, f, d) + Width(fd, f, d))]
\* the examples of device d, in the order of the batch after its shuffle
ShardExamples(t, d) == Shard(feed_dict[t], batch[t], d)

\* the filler of each tensor, as the claim names it
Filler(f) ==
    CASE f = "inputs" -> 0
      [] f = "token_targets" -> 1
      [] OTHER -> IF hparams.symmetric_mels THEN -max_abs_value ELSE 0

\* C11 (AssembleSpec): padding writes only filler.  In every shard, the row of
\* every example is as wide as the shard's recorded width, starts with the
\* example's own values and holds the tensor's filler from the example's true
\* length on: 0 for token ids, 1 for stop flags, -max_abs_value (symmetric
\* normalisation) or 0 for mel and linear frames.
C11_PaddingOnlyFiller ==
    \A t \in Assembled : \A f \in Tensors : \A d \in Devices :
        LET fd    == feed_dict[t]
            block == ShardBlock(fd, f, d)
            exs   == ShardExamples(t, d)
        IN  /\ Len(block) = Len(exs)
            /\ \A j \in DOMAIN exs :
                 LET orig == exs[j][SourceField(f)]
                 IN  /\ Len(block[j]) = Width(fd, f, d)
                     /\ Len(orig) <= Width(fd, f, d)
                     /\ \A i \in 1..Len(orig) : block[j][i] = orig[i]
                     /\ \A i \in (Len(orig) + 1)..Width(fd, f, d) : block[j][i] = Filler(f)

\* C11 witness: on the second device, under symmetric normalisation, an
\* example that is padded in all four tensors.
C11_Witness ==
    \E t \in Assembled :
        /\ hparams.symmetric_mels
        /\ hparams.tacotron_num_gpus = 2
        /\ \E j \in DOMAIN ShardExamples(t, 1) : \A f \in Tensors :
             /\ ShardExamples(t, 1)[j][SourceField(f)] # <<>>
             /\ Len(ShardExamples(t, 1)[j][SourceField(f)]) < Width(feed_dict[t], f, 1)

Returned == round_call.returned

\* C12 (RoundUpSpec): for x >= 0 and m >= 1, round_up(x, m) is a multiple of
\* m, is at least x and exceeds x by less than m: it is the least multiple of m
\* that is at least x, and it is x when x is a multiple of m.
C12_RoundUp ==
    Returned =>
        LET x == round_call.x
            m == round_call.multiple
            y == round_call.result
        IN  /\ y % m = 0
            /\ y >= x
            /\ y - x < m
            /\ \A k \in x..(y - 1) : k % m # 0
            /\ x % m = 0 => y = x

\* C12 witness: a call that had to round up, and a multiple greater than 1.
C12_Witness ==
    /\ Returned
    /\ round_call.multiple > 1
    /\ round_call.result > round_call.x

\* the device and the row of the device's block that hold example i (1-based)
DeviceOf(fd, i) == (i - 1) \div ShardSize(fd)
RowOf(fd, i) == ((i - 1) % ShardSize(fd)) + 1

\* C13 (AssembleSpec): targets_lengths and input_lengths have one entry per
\* example; entry i is the number of mel frames, and of tokens, of the i-th
\* example of the batch in its order after the shuffle, whatever padding and
\* rounding added; and this is the order the shards are cut in: the row of
\* example i in its device's block, cut to these lengths, is the example's
\* own mel frames and tokens.
C13_TrueLengths ==
    \A t \in Assembled :
        LET fd == feed_dict[t]
        IN  /\ Len(fd.targets_lengths) = Len(batch[t])
            /\ Len(fd.input_lengths) = Len(batch[t])
            /\ \A i \in DOMAIN batch[t] :
                 LET d == DeviceOf(fd, i)
                     j == RowOf(fd, i)
                 IN  /\ fd.targets_lengths[i] = Len(batch[t][i].mel_target)
                     /\ fd.input_lengths[i] = Len(batch[t][i].input_data)
                     /\ SubSeq(ShardBlock(fd, "mel_targets", d)[j], 1, fd.targets_lengths[i])
                            = batch[t][i].mel_target
                     /\ SubSeq(ShardBlock(fd, "inputs", d)[j], 1, fd.input_lengths[i])
                            = batch[t][i].input_data

\* C13 witness: two devices, a batch the shuffle left out of length order, and
\* an example whose mel row is wider than its recorded length.
C13_Witness ==
    \E t \in Assembled :
        LET fd == feed_dict[t]
        IN  /\ hparams.tacotron_num_gpus = 2
            /\ \E i \in 1..(Len(batch[t]) - 1) :
                 Len(batch[t][i].mel_target) > Len(batch[t][i + 1].mel_target)
            /\ \E i \in DOMAIN batch[t] :
                 /\ fd.targets_lengths[i] > 0
                 /\ fd.targets_lengths[i] < Width(fd, "mel_targets", DeviceOf(fd, i))

(***************************************************************************)
(* Properties of the stop signal.                                          *)
(***************************************************************************)
\* C14 (LiveSpec): no mid-group abort.  The stop signal never holds up a producer
\* inside a group: unless it waits in front of the full queue, its next step
\* can be taken.  A producer leaves its loop only between groups; one that the
\* stop signal found inside a group has enqueued all _batches_per_group
\* batches of that group when it has stopped.
C14_NoMidGroupAbort ==
    \A t \in Threads :
        /\ (stop_requested /\ InGroup(t) /\ ~Blocked(t)) => ENABLED ThreadStep(t)
        /\ pc[t] \in {"while", "done"} => in_group[t] \in {0, _batches_per_group}
        /\ (pc[t] = "done" /\ stop_phase[t] = "mid") => in_group[t] = _batches_per_group

\* C14 witness: a producer the stop signal found inside a group has stopped,
\* with the whole group enqueued.
C14_Witness ==
    \E t \in Threads :
        /\ pc[t] = "done"
        /\ stop_phase[t] = "mid"
        /\ in_group[t] = _batches_per_group

\* a producer at the poll of line 96, or out of its loop
AtLoopHead(t) == pc[t] \in {"while", "done"}

\* C15 (Spec): the stop signal is polled at the top of each group iteration.
\* A producer the signal found outside a group never enters one.  Once the
\* signal is set and the producer is back at the top of its loop, its only
\* step is to leave the loop, and from then on it draws no example, the
\* offset and the pool stay as they are and nothing more is enqueued.
C15_NoNewGroupAfterStop ==
    /\ [](\A t \in Threads : stop_phase[t] = "boundary" => ~InGroup(t))
    /\ [][\A t \in Threads :
            (stop_requested /\ Started = {t} /\ AtLoopHead(t)) =>
                /\ pc'[t] \in {pc[t], "done"}
                /\ examples'[t] = <<>>
                /\ _train_offset' = _train_offset
                /\ _train_meta' = _train_meta
                /\ Len(queue') <= Len(queue)
                /\ in_group'[t] = in_group[t]]_vars

\* C15 witness: the producer finished the group the signal found it in and
\* left its loop; the consumer has drained the queue and waits for a batch
\* that will not come.
C15_Witness ==
    \E t \in Threads :
        /\ stop_phase[t] = "mid"
        /\ pc[t] = "done"
        /\ _train_offset > 0
        /\ queue = <<>>
        /\ consumer = "waiting"

(***************************************************************************)
(* Properties of the pool and of a group.                                  *)
(***************************************************************************)
\* a thread inside a call of _get_next_example, between lines 118 and 122
InCall(t) == pc[t] \in {"reset", "shuffle", "read", "incr", "load"}

Occurrences(s, x) == Cardinality({i \in DOMAIN s : s[i] = x})

\* C16 (Spec, one producer, NumRecords records): epoch wrap.  The pool always
\* holds every record once and the offset never leaves 0..N.  Between calls
\* the records returned since the last reshuffle are the first 'offset'
\* entries of the pool, so the first one after a reshuffle is the record at
\* position 0.  When the pool is reshuffled the offset has been reset to 0 and
\* every record has been returned exactly once since the last reshuffle.  A
\* call reshuffles exactly when it finds offset = N, and every call leaves
\* the offset in 1..N.
C16_EpochWrap ==
    /\ [](/\ Len(_train_meta) = NumRecords
          /\ \A k \in 1..NumRecords : Occurrences(_train_meta, k) = 1
          /\ _train_offset \in 0..NumRecords
          /\ \A t \in Threads : error[t] # "IndexError"
          /\ (\A t \in Threads : ~InCall(t)) =>
                epoch_drawn = SubSeq(_train_meta, 1, _train_offset)
          /\ \A t \in Threads : pc[t] = "shuffle" =>
                /\ _train_offset = 0
                /\ \A k \in 1..NumRecords : Occurrences(epoch_drawn, k) = 1)
    /\ [][\A t \in Threads :
            /\ (pc[t] = "get" /\ pc'[t] # "get") =>
                  ((pc'[t] = "reset") <=> (_train_offset = NumRecords))
            /\ (pc[t] = "read" /\ pc'[t] # "read") =>
                  (pc'[t] = "incr" /\ meta'[t] = _train_meta[_train_offset + 1])
            /\ (pc[t] = "load" /\ pc'[t] # "load") =>
                  _train_offset' \in 1..NumRecords]_vars

\* C16 witness: the call after a reshuffle has returned the record at position
\* 0 of a pool whose order the reshuffle changed.
C16_Witness ==
    /\ \A t \in Threads : ~InCall(t)
    /\ _train_meta # [k \in 1..NumRecords |-> k]
    /\ _train_offset = 1
    /\ epoch_drawn = <<_train_meta[1]>>

RECURSIVE Flatten(_)
Flatten(ss) == IF ss = <<>> THEN <<>> ELSE Head(ss) \o Flatten(Tail(ss))

\* two sequences hold the same elements, each as many times
SameBag(a, b) == \A x \in Range(a) \cup Range(b) : Occurrences(a, x) = Occurrences(b, x)

\* the batches of the current group a thread has not enqueued yet
Pending(t) == Len(batches[t]) + (IF pc[t] = "enqueue" THEN 1 ELSE 0)

\* C17 (Spec): a group is batch_size * _batches_per_group examples, cut into
\* _batches_per_group batches of batch_size examples.  When line 105 is
\* reached the group holds exactly that many examples, also when the pool is
\* smaller than the group; the batches of line 107 hold together exactly the
\* examples drawn, each as often as it was drawn, and they are the slices of
\* the sorted group in some order; every batch handed to the queue holds
\* batch_size examples, and the batches enqueued and those still to come are
\* _batches_per_group together.
C17_GroupPartition ==
    /\ [](\A t \in Threads :
            /\ pc[t] = "bucket" => Len(examples[t]) = GroupSize
            /\ pc[t] \in {"prepare", "enqueue"} =>
                  /\ in_group[t] + Pending(t) = _batches_per_group
                  /\ \A j \in DOMAIN batches[t] :
                       Len(batches[t][j]) = hparams.tacotron_batch_size
            /\ pc[t] = "enqueue" =>
                  /\ Len(batch[t]) = hparams.tacotron_batch_size
                  /\ NumExamples(feed_dict[t]) = hparams.tacotron_batch_size)
    /\ [][\A t \in Threads :
            (pc[t] = "bucket" /\ pc'[t] = "prepare") =>
                /\ Len(batches'[t]) = _batches_per_group
                /\ \A j \in DOMAIN batches'[t] :
                     Len(batches'[t][j]) = hparams.tacotron_batch_size
                /\ SameBag(Flatten(batches'[t]), examples[t])
                /\ SameBag(batches'[t],
                           Slices(SortByLen(examples[t]), hparams.tacotron_batch_size))]_vars

\* C17 witness: a group of batches of two examples that spans an epoch wrap,
\* so one record was drawn twice, cut into batches the shuffle put in another
\* order than the sort.
C17_Witness ==
    \E t \in Threads :
        /\ pc[t] = "prepare"
        /\ hparams.tacotron_batch_size = 2
        /\ Len(batches[t]) = _batches_per_group
        /\ \E i, j \in DOMAIN Flatten(batches[t]) :
             i # j /\ Flatten(batches[t])[i] = Flatten(batches[t])[j]
        /\ batches[t][1][1].len > batches[t][2][1].len

\* the batches of its current group a thread still holds: the one in hand
\* and those the for loop of line 110 has not reached
Held(t) == (IF batch[t] # <<>> THEN <<batch[t]>> ELSE <<>>) \o batches[t]

Lengths(b) == {b[i].len : i \in DOMAIN b}

\* no example of a is longer than an example of b
NotLonger(a, b) == \A x \in Lengths(a), y \in Lengths(b) : x <= y

\* C18 (Spec): length bucketing.  The mel lengths of any two batches of one
\* group do not interleave: every example of one is no longer than every
\* example of the other.
C18_LengthBucketing ==
    \A t \in Threads : \A i, j \in DOMAIN Held(t) :
        i # j => (NotLonger(Held(t)[i], Held(t)[j]) \/ NotLonger(Held(t)[j], Held(t)[i]))

\* C18 witness: a whole group of batches of two examples, one batch with
\* examples of two lengths, and the longer batch first.
C18_Witness ==
    \E t \in Threads :
        /\ pc[t] = "prepare"
        /\ hparams.tacotron_batch_size = 2
        /\ Len(batches[t]) = _batches_per_group
        /\ \E j \in DOMAIN batches[t] : Cardinality(Lengths(batches[t][j])) = 2
        /\ ~NotLonger(batches[t][1], batches[t][2])

\* C19 (AssembleSpec): in every shard whose examples all have at least one
\* mel frame, the recorded stop-flag width equals the recorded mel width, and
\* the stop-flag rows and the mel rows of the shard's block are that wide.
C19_StopWidthEqualsMelWidth ==
    \A t \in Assembled : \A d \in Devices :
        LET fd == feed_dict[t]
        IN  (\A j \in DOMAIN ShardExamples(t, d) :
                 Len(ShardExamples(t, d)[j].mel_target) >= 1) =>
              /\ Width(fd, "token_targets", d) = Width(fd, "mel_targets", d)
              /\ \A j \in DOMAIN ShardExamples(t, d) :
                   Len(ShardBlock(fd, "token_targets", d)[j])
                     = Len(ShardBlock(fd, "mel_targets", d)[j])

\* C19 witness: a shard of two examples of different mel lengths, none empty,
\* the longest a multiple of outputs_per_step > 1, beside a shard of another
\* width.
C19_Witness ==
    \E t \in Assembled :
        LET fd == feed_dict[t]
            M  == Max(Shard(fd, fd.targets_lengths, 1))
        IN  /\ hparams.tacotron_num_gpus = 2
            /\ hparams.outputs_per_step > 1
            /\ ShardSize(fd) = 2
            /\ \A j \in 1..2 : Shard(fd, fd.targets_lengths, 1)[j] >= 1
            /\ Shard(fd, fd.targets_lengths, 1)[1] # Shard(fd, fd.targets_lengths, 1)[2]
            /\ M % hparams.outputs_per_step = 0
            /\ Width(fd, "token_targets", 1) = M
            /\ Width(fd, "mel_targets", 0) # Width(fd, "mel_targets", 1)

\* the padded block _prepare_inputs / _prepare_targets / _prepare_token_targets
\* make of a list of examples (lines 162-170)
PaddedBlock(f, exs) ==
    CASE f = "inputs" -> _prepare_inputs(Column(exs, "input_data")).data
      [] f = "mel_targets" ->
           _prepare_targets(hparams, Column(exs, "mel_target"), hparams.outputs_per_step).data
      [] f = "token_targets" ->
           _prepare_token_targets(Column(exs, "token_target"), hparams.outputs_per_step).data
      [] f = "linear_targets" ->
           _prepare_targets(hparams, Column(exs, "linear_target"), hparams.outputs_per_step).data

\* C20 (AssembleSpec): split_infos has num_devices rows of four widths; every
\* row of each of the four tensors is as long as the per-device widths of the
\* tensor add up to; and the block cut out for device d with the recorded
\* widths is the padded block of the examples d * B / num_devices ..
\* (d + 1) * B / num_devices - 1 of the shuffled batch, as wide as recorded.
C20_SplitInfosRecoverShards ==
    \A t \in Assembled :
        LET fd == feed_dict[t]
        IN  /\ Len(fd.split_infos) = hparams.tacotron_num_gpus
            /\ \A d \in DOMAIN fd.split_infos : Len(fd.split_infos[d]) = 4
            /\ ShardSize(fd) * hparams.tacotron_num_gpus = Len(batch[t])
            /\ \A f \in Tensors :
                 /\ \A i \in DOMAIN fd[f] :
                      Len(fd[f][i]) = Offset(fd, f, hparams.tacotron_num_gpus)
                 /\ \A d \in Devices :
                      LET exs == SubSeq(batch[t], d * ShardSize(fd) + 1, (d + 1) * ShardSize(fd))
                      IN  /\ ShardBlock(fd, f, d) = PaddedBlock(f, exs)
                          /\ \A j \in DOMAIN exs :
                               Len(ShardBlock(fd, f, d)[j]) = Width(fd, f, d)

\* C20 witness: four examples on two devices, left out of length order by the
\* shuffle, the two shards of different widths in every tensor.
C20_Witness ==
    \E t \in Assembled :
        LET fd == feed_dict[t]
        IN  /\ hparams.tacotron_num_gpus = 2
            /\ Len(batch[t]) = 4
            /\ \E i \in 1..3 : batch[t][i].len > batch[t][i + 1].len
            /\ \A f \in Tensors : Width(fd, f, 0) # Width(fd, f, 1)

=============================================================================
